---- MODULE Spec2Model ----
(***************************************************************************)
(* The flight-booking session of flight_booking.py: main()'s session loop  *)
(* around search_agent.run, the extract_flights capability with its nested *)
(* extraction_agent.run, the validate_result result validator, find_seat   *)
(* and buy_tickets; and the capability handlers of weather_agent.py        *)
(* (get_lat_lng, get_weather) and of pydantic.py (execute_code) inside a   *)
(* run of their agents.                                                    *)
(*                                                                         *)
(* The agent runtime behind Agent.run (retry budget, usage-limit check,    *)
(* tool round trips) is the pydantic_ai package, which is not part of the  *)
(* sources; its steps follow sections 4.1, 4.2 and 4.4 of the design text. *)
(*                                                                         *)
(* Abstractions: FlightDetails keeps the three validated fields (origin,   *)
(* destination, date); flight_number and price are read by no branch.      *)
(* main() builds Deps with req_date=datetime(2025, 1, 10) while datetime   *)
(* names the imported module, a call that raises TypeError when executed;  *)
(* the model starts from the constraint record those arguments describe    *)
(* (SFO, ANC, 2025-01-10), so that the loop the arguments are meant for    *)
(* can be examined.  Each engine request costs one unit of Usage.requests, *)
(* the only quantity UsageLimits(request_limit=15) bounds.                 *)
(***************************************************************************)
EXTENDS Integers, Sequences, FiniteSets, TLC

VARIABLES
    pc,               \* position of main() / of the run in progress
    deps,             \* the Deps of the run (ctx.deps)
    usage,            \* Usage.requests of the one Usage object of main()
    messages,         \* message list of the search_agent run in progress
    message_history,  \* main()'s message_history variable (<<>> is None)
    retries,          \* result retries consumed by the run in progress
    attempts,         \* structured results validated in the run in progress
    pending,          \* capability requests of the last response not yet resolved
    issued,           \* capability requests issued in the run in progress
    candidate,        \* the structured result handed to validate_result
    verdict,          \* outcome of validate_result for candidate
    data,             \* result.data as main() sees it
    answer,           \* the caller's answer to Prompt.ask in main()
    seat,             \* the SeatPreference find_seat returned
    purchased,        \* number of buy_tickets calls
    printed,          \* lines main() and find_seat() printed, in order
    exception,        \* the exception that left main(), if any
    searchCalls,      \* engine requests made by search_agent
    extractCalls,     \* engine requests made by extraction_agent
    seatCalls,        \* engine requests made by seat_preference_agent
    agent,            \* the agent whose run is in progress
    request,          \* the capability request being resolved, with what the
                      \* outside world answers to the handler
    outcome           \* what the handler did for request: return or raise

vars == << pc, deps, usage, messages, message_history, retries, attempts,
           pending, issued, candidate, verdict, data, answer, seat, purchased,
           printed, exception, searchCalls, extractCalls, seatCalls,
           agent, request, outcome >>

(***************************************************************************)
(* Bounds of the model and constants of the program.                       *)
(***************************************************************************)

\* capability requests one engine response may carry
MaxRequestsPerResponse == 2

\* engine requests one nested extraction_agent.run may make
MaxNestedRequests == 2

\* usage_limits = UsageLimits(request_limit=15)
REQUEST_LIMIT == 15

\* a budget one larger than the configured one
RETRIES_plus_one == 4 + 1

\* search_agent = Agent(..., retries=4, ...)
RETRIES == 4

\* three-letter airport codes as they occur in flights_web_page
Airports == {"SFO", "ANC", "ORD"}

Dates == {"2025-01-10", "2025-01-12"}

(***************************************************************************)
(* Data model.                                                             *)
(***************************************************************************)

FlightDetails == [variant : {"FlightDetails"}, origin : Airports,
                  destination : Airports, date : Dates]

NoFlightFound == [variant |-> "NoFlightFound"]

\* no structured result present (a Python None)
NoResult == [variant |-> "None"]

\* result_type = FlightDetails | NoFlightFound
SearchResults == FlightDetails \cup {NoFlightFound}

Deps == [req_origin : Airports, req_destination : Airports, req_date : Dates]

\* the Deps main() constructs
MainDeps == [req_origin |-> "SFO", req_destination |-> "ANC",
             req_date |-> "2025-01-10"]

SeatPreference == [variant : {"SeatPreference"}, row : {1, 30}, seat : {"A", "F"}]

Failed == [variant |-> "Failed"]

NoVerdict == [kind |-> "none", result |-> NoResult, errors |-> << >>]

\* no capability request in progress
NoRequest == [name |-> "None"]

\* no handler has run
NoOutcome == [kind |-> "none", exc |-> "None", content |-> ""]

(***************************************************************************)
(* validate_result: the result validator of search_agent.                  *)
(* An error line f'Flight should have {field} {want}, not {got}' is the    *)
(* record of its three parts; ModelRetry carries '\n'.join(errors), one    *)
(* line per element of errors, kept here as the sequence of lines.         *)
(***************************************************************************)

ErrorLine(field, want, got) == [field |-> field, want |-> want, got |-> got]

OriginErrors(d, r) ==
    IF r.origin # d.req_origin
    THEN << ErrorLine("origin", d.req_origin, r.origin) >> ELSE << >>

DestinationErrors(d, r) ==
    IF r.destination # d.req_destination
    THEN << ErrorLine("destination", d.req_destination, r.destination) >> ELSE << >>

DateErrors(d, r) ==
    IF r.date # d.req_date
    THEN << ErrorLine("date", d.req_date, r.date) >> ELSE << >>

errors_swapped(d, r) == DestinationErrors(d, r) \o OriginErrors(d, r) \o DateErrors(d, r)

errors(d, r) == OriginErrors(d, r) \o DestinationErrors(d, r) \o DateErrors(d, r)

validate_result(d, r) ==
    IF r.variant = "NoFlightFound"
    THEN [kind |-> "return", result |-> r, errors |-> << >>]
    ELSE IF errors(d, r) # << >>
         THEN [kind |-> "ModelRetry", result |-> NoResult, errors |-> errors(d, r)]
         ELSE [kind |-> "return", result |-> r, errors |-> << >>]

(***************************************************************************)
(* Usage ledger (design text 4.1).  A limits object either carries a       *)
(* request_limit or none; check_before_request passes when the request     *)
(* about to be made keeps the counter within the limit.                    *)
(***************************************************************************)

UsageLimits(n) == [has_limit |-> TRUE, request_limit |-> n]

NoUsageLimits == [has_limit |-> FALSE, request_limit |-> 0]

\* usage_limits, module level
usage_limits == UsageLimits(REQUEST_LIMIT)

check_before_request_late(limits, u) ==
    (~limits.has_limit) \/ (u <= limits.request_limit)

check_before_request(limits, u) ==
    (~limits.has_limit) \/ (u + 1 <= limits.request_limit)

SearchLimits_omitted == NoUsageLimits

\* search_agent.run(..., usage_limits=usage_limits) in main()
SearchLimits == usage_limits

\* seat_preference_agent.run(..., usage_limits=usage_limits) in find_seat()
SeatLimits == usage_limits

\* extraction_agent.run(ctx.deps.web_page_text, usage=ctx.usage): no usage_limits
ExtractLimits == NoUsageLimits

ExtractSharesUsage_fresh == FALSE

\* extraction_agent.run(..., usage=ctx.usage): the caller's Usage object is passed on
ExtractSharesUsage == TRUE

(***************************************************************************)
(* History records.                                                        *)
(***************************************************************************)

Count(s, tag) == Cardinality({i \in DOMAIN s : s[i] = tag})

Repeat(tag, n) == [i \in 1..n |-> tag]

\* the capabilities registered on search_agent with @search_agent.tool
Registry == {"extract_flights"}

\* capability names the engine may ask for
RequestedNames == {"extract_flights", "book_hotel"}

(***************************************************************************)
(* Initial state: main() has built deps, message_history = None and        *)
(* usage = Usage(), and is at the top of its while loop.                   *)
(***************************************************************************)

Init ==
    /\ agent = "search_agent"
    /\ request = NoRequest
    /\ outcome = NoOutcome
    /\ pc = "main_loop"
    /\ deps = MainDeps
    /\ usage = 0
    /\ messages = << >>
    /\ message_history = << >>
    /\ retries = 0
    /\ attempts = 0
    /\ pending = 0
    /\ issued = 0
    /\ candidate = NoResult
    /\ verdict = NoVerdict
    /\ data = NoResult
    /\ answer = "None"
    /\ seat = NoResult
    /\ purchased = 0
    /\ printed = << >>
    /\ exception = "None"
    /\ searchCalls = 0
    /\ extractCalls = 0
    /\ seatCalls = 0

(***************************************************************************)
(* main(): result = await search_agent.run(prompt, deps=deps, usage=usage, *)
(* message_history=message_history, usage_limits=usage_limits).            *)
(* The run starts from the history handed in plus the new user prompt,     *)
(* with a fresh retry budget.                                              *)
(***************************************************************************)

RunSearchAgent ==
    /\ pc = "main_loop"
    /\ messages' = Append(message_history, "user-prompt")
    /\ retries' = 0
    /\ attempts' = 0
    /\ pending' = 0
    /\ issued' = 0
    /\ candidate' = NoResult
    /\ verdict' = NoVerdict
    /\ pc' = "awaiting_engine"
    /\ UNCHANGED << agent, request, outcome, deps, usage, message_history, data, answer, seat, purchased,
                    printed, exception, searchCalls, extractCalls, seatCalls >>

(***************************************************************************)
(* Turn orchestrator, AWAITING_ENGINE: the ledger is checked against the   *)
(* limits of this run, then the engine is invoked and its request charged. *)
(* The engine answers with capability requests or a structured result.     *)
(***************************************************************************)

SearchBudgetExceeded ==
    /\ pc = "awaiting_engine"
    /\ ~check_before_request(SearchLimits, usage)
    /\ pc' = "budget_exceeded"
    /\ UNCHANGED << agent, request, outcome, deps, usage, messages, message_history, retries, attempts,
                    pending, issued, candidate, verdict, data, answer, seat,
                    purchased, printed, exception, searchCalls, extractCalls,
                    seatCalls >>

EngineRequestsCapabilities ==
    /\ pc = "awaiting_engine"
    /\ check_before_request(SearchLimits, usage)
    /\ \E name \in RequestedNames, n \in 1..MaxRequestsPerResponse :
          /\ usage' = usage + 1
          /\ searchCalls' = searchCalls + 1
          /\ IF name \in Registry
             THEN /\ messages' = messages \o Repeat("tool-call", n)
                  /\ pending' = n
                  /\ issued' = issued + n
                  /\ pc' = "awaiting_capabilities"
             ELSE /\ n = 1
                  /\ pc' = "unknown_capability"
                  /\ UNCHANGED << messages, pending, issued >>
    /\ verdict' = NoVerdict
    /\ UNCHANGED << agent, request, outcome, deps, message_history, retries, attempts, candidate,
                    data, answer, seat, purchased, printed, exception,
                    extractCalls, seatCalls >>

EngineReturnsResult ==
    /\ pc = "awaiting_engine"
    /\ check_before_request(SearchLimits, usage)
    /\ \E r \in SearchResults :
          /\ candidate' = r
          /\ verdict' = NoVerdict
    /\ usage' = usage + 1
    /\ searchCalls' = searchCalls + 1
    /\ messages' = Append(messages, "result-call")
    /\ pc' = "validating"
    /\ UNCHANGED << agent, request, outcome, deps, message_history, retries, attempts, pending, issued,
                    data, answer, seat, purchased, printed, exception,
                    extractCalls, seatCalls >>

(***************************************************************************)
(* extract_flights: the capability runs extraction_agent on the page text, *)
(* charging the nested requests to ctx.usage, and returns result.data; the *)
(* orchestrator appends the return to the history and, once every request  *)
(* of the response is resolved, invokes the engine again.                  *)
(***************************************************************************)

ToolReturnRecord_dropped(ms) == ms

\* the capability's return value becomes one tool-return record
ToolReturnRecord(ms) == Append(ms, "tool-return")

extract_flights ==
    /\ pc = "awaiting_capabilities"
    /\ pending > 0
    /\ \E n \in 1..MaxNestedRequests :
          /\ check_before_request(ExtractLimits, usage + n - 1)
          /\ usage' = IF ExtractSharesUsage THEN usage + n ELSE usage
          /\ extractCalls' = extractCalls + n
    /\ messages' = ToolReturnRecord(messages)
    /\ pending' = pending - 1
    /\ pc' = IF pending' = 0 THEN "awaiting_engine" ELSE "awaiting_capabilities"
    /\ UNCHANGED << agent, request, outcome, deps, message_history, retries, attempts, issued, candidate,
                    verdict, data, answer, seat, purchased, printed, exception,
                    searchCalls, seatCalls >>

(***************************************************************************)
(* Turn orchestrator, VALIDATING: validate_result decides.  A returned     *)
(* result ends the run ACCEPTED; a ModelRetry consumes one unit of the     *)
(* retry budget and either re-enters AWAITING_ENGINE with the retry prompt *)
(* appended or, the budget spent, ends the run RETRIES_EXHAUSTED.          *)
(***************************************************************************)

Validate ==
    /\ pc = "validating"
    /\ verdict' = validate_result(deps, candidate)
    /\ candidate' = NoResult
    /\ attempts' = attempts + 1
    /\ IF verdict'.kind = "return"
       THEN /\ data' = verdict'.result
            /\ messages' = Append(messages, "result-return")
            /\ pc' = "accepted"
            /\ UNCHANGED retries
       ELSE /\ retries' = retries + 1
            /\ messages' = Append(messages, "retry-prompt")
            /\ pc' = IF retries' >= RETRIES THEN "retries_exhausted"
                                            ELSE "awaiting_engine"
            /\ UNCHANGED data
    /\ UNCHANGED << agent, request, outcome, deps, usage, message_history, pending, issued,
                    answer, seat, purchased, printed, exception, searchCalls,
                    extractCalls, seatCalls >>

(***************************************************************************)
(* main() after search_agent.run returned: NoFlightFound prints and breaks *)
(* without prompting; a flight is printed and the caller is asked.  'buy'  *)
(* goes on to find_seat; any other answer evaluates                        *)
(* result.all.messages(result_tool_return_content=...), and the run result *)
(* has no attribute `all` (its accessor is all_messages()), so the         *)
(* statement raises AttributeError before message_history is assigned.     *)
(***************************************************************************)

ReportNoFlight ==
    /\ pc = "accepted"
    /\ data = NoFlightFound
    /\ printed' = Append(printed, "No flight found")
    /\ pc' = "loop_exited"
    /\ UNCHANGED << agent, request, outcome, deps, usage, messages, message_history, retries, attempts,
                    pending, issued, candidate, verdict, data, answer, seat,
                    purchased, exception, searchCalls, extractCalls, seatCalls >>

\* choices=['buy', 'search', '']
Choices == {"buy", "search", ""}

AskCaller ==
    /\ pc = "accepted"
    /\ data # NoFlightFound
    /\ printed' = Append(printed, "Flight found")
    /\ \E a \in Choices :
          /\ answer' = a
          /\ IF a = "buy"
             THEN /\ pc' = "find_seat"
                  /\ UNCHANGED exception
             ELSE /\ pc' = "main_raised"
                  /\ exception' = "AttributeError"
    /\ UNCHANGED << agent, request, outcome, deps, usage, messages, message_history, retries, attempts,
                    pending, issued, candidate, verdict, data, seat, purchased,
                    searchCalls, extractCalls, seatCalls >>

(***************************************************************************)
(* find_seat(usage): asks for a seat, runs seat_preference_agent against   *)
(* the same Usage and usage_limits; a SeatPreference is returned to main() *)
(* and anything else prints and evaluates result.all.messages(), raising   *)
(* AttributeError as above.                                                *)
(***************************************************************************)

SeatBudgetExceeded ==
    /\ pc = "find_seat"
    /\ ~check_before_request(SeatLimits, usage)
    /\ pc' = "budget_exceeded"
    /\ UNCHANGED << agent, request, outcome, deps, usage, messages, message_history, retries, attempts,
                    pending, issued, candidate, verdict, data, answer, seat,
                    purchased, printed, exception, searchCalls, extractCalls,
                    seatCalls >>

find_seat ==
    /\ pc = "find_seat"
    /\ check_before_request(SeatLimits, usage)
    /\ usage' = usage + 1
    /\ seatCalls' = seatCalls + 1
    /\ \E r \in SeatPreference \cup {Failed} :
          IF r.variant = "SeatPreference"
          THEN /\ seat' = r
               /\ pc' = "buy_tickets"
               /\ UNCHANGED << printed, exception >>
          ELSE /\ printed' = Append(printed, "Could not understand seat preference")
               /\ pc' = "main_raised"
               /\ exception' = "AttributeError"
               /\ UNCHANGED seat
    /\ UNCHANGED << agent, request, outcome, deps, messages, message_history, retries, attempts, pending,
                    issued, candidate, verdict, data, answer, purchased,
                    searchCalls, extractCalls >>

buy_tickets ==
    /\ pc = "buy_tickets"
    /\ purchased' = purchased + 1
    /\ printed' = Append(printed, "Purchasing flight")
    /\ pc' = "loop_exited"
    /\ UNCHANGED << agent, request, outcome, deps, usage, messages, message_history, retries, attempts,
                    pending, issued, candidate, verdict, data, answer, seat,
                    exception, searchCalls, extractCalls, seatCalls >>

(***************************************************************************)
(* main() has no try/except: whatever a run raises leaves main().          *)
(***************************************************************************)

ExceptionOf(p) ==
    CASE p = "budget_exceeded" -> "BudgetExceeded"
      [] p = "retries_exhausted" -> "RetriesExhausted"
      [] p = "unknown_capability" -> "UnknownCapability"

RunFailed == pc \in {"budget_exceeded", "retries_exhausted", "unknown_capability"}

MainOnRunFailure_retry(p) == [pc |-> "main_loop", exception |-> "None"]

\* the while loop of main() around the awaited runs: no handler
MainOnRunFailure(p) == [pc |-> "main_raised", exception |-> ExceptionOf(p)]

PropagateFromMain ==
    /\ RunFailed
    /\ pc' = MainOnRunFailure(pc).pc
    /\ exception' = MainOnRunFailure(pc).exception
    /\ UNCHANGED << agent, request, outcome, deps, usage, messages, message_history, retries, attempts,
                    pending, issued, candidate, verdict, data, answer, seat,
                    purchased, printed, searchCalls, extractCalls, seatCalls >>

(***************************************************************************)
(* main() after the loop: WebScraperAgent.run is a plain function, so      *)
(* `await scraper_agent.run(scrape_input)` raises TypeError once run       *)
(* returned its WebScrapeOutput; when the imports inside run fail, the     *)
(* except clause naming requests raises UnboundLocalError instead.         *)
(***************************************************************************)

ScrapeAfterLoop ==
    /\ pc = "loop_exited"
    /\ pc' = "main_raised"
    /\ exception' \in {"TypeError", "UnboundLocalError"}
    /\ UNCHANGED << agent, request, outcome, deps, usage, messages, message_history, retries, attempts,
                    pending, issued, candidate, verdict, data, answer, seat,
                    purchased, printed, searchCalls, extractCalls, seatCalls >>

Next ==
    \/ RunSearchAgent
    \/ SearchBudgetExceeded
    \/ EngineRequestsCapabilities
    \/ EngineReturnsResult
    \/ extract_flights
    \/ Validate
    \/ ReportNoFlight
    \/ AskCaller
    \/ SeatBudgetExceeded
    \/ find_seat
    \/ buy_tickets
    \/ PropagateFromMain
    \/ ScrapeAfterLoop

Spec == Init /\ [][Next]_vars

(***************************************************************************)
(* validate_result on its own: every constraint set and every candidate.   *)
(***************************************************************************)

InitValidate ==
    /\ agent = "search_agent"
    /\ request = NoRequest
    /\ outcome = NoOutcome
    /\ pc = "validate_only"
    /\ deps \in Deps
    /\ candidate \in SearchResults
    /\ verdict = NoVerdict
    /\ usage = 0
    /\ messages = << >>
    /\ message_history = << >>
    /\ retries = 0
    /\ attempts = 0
    /\ pending = 0
    /\ issued = 0
    /\ data = NoResult
    /\ answer = "None"
    /\ seat = NoResult
    /\ purchased = 0
    /\ printed = << >>
    /\ exception = "None"
    /\ searchCalls = 0
    /\ extractCalls = 0
    /\ seatCalls = 0

ApplyValidate ==
    /\ pc = "validate_only"
    /\ verdict = NoVerdict
    /\ verdict' = validate_result(deps, candidate)
    /\ UNCHANGED << agent, request, outcome, pc, deps, usage, messages, message_history, retries, attempts,
                    pending, issued, candidate, data, answer, seat, purchased,
                    printed, exception, searchCalls, extractCalls, seatCalls >>

NextValidate == ApplyValidate

SpecValidate == InitValidate /\ [][NextValidate]_vars

(***************************************************************************)
(* Capability handlers of weather_agent and code_agent.  A request carries *)
(* the arguments' effect on the outside world: what the Riza execution,    *)
(* the geocoding API or the weather API answers.  A handler either returns *)
(* a content or raises an exception.                                       *)
(***************************************************************************)

\* capability rounds one run may take
MaxToolRounds == 3

Return(content) == [kind |-> "return", exc |-> "None", content |-> content]

Raise(exc, text) == [kind |-> "raise", exc |-> exc, content |-> text]

\* result of riza.command.exec: exit_code, stdout, stderr
ExecuteCodeRequests ==
    [name : {"execute_code"}, exit_code : {0, 1}, stdout : {"", "42"},
     stderr : {"Traceback"}]

\* answer of https://geocode.maps.co/search: HTTP status and whether data is non-empty
GetLatLngRequests ==
    [name : {"get_lat_lng"}, status : {200, 500}, found : BOOLEAN]

\* answer of https://api.tomorrow.io/v4/weather/realtime: HTTP status
GetWeatherRequests == [name : {"get_weather"}, status : {200, 500}]

\* Deps of weather_agent.py; a key is None or set from the environment
WeatherDeps == [weather_api_key : {"None", "key"}, geo_api_key : {"None", "key"}]

\* code_agent has no deps
NoDeps == [none |-> TRUE]

Agents == {"weather_agent", "code_agent"}

\* the capabilities registered with @weather_agent.tool and @code_agent.tool_plain
RequestsOf(a) ==
    IF a = "weather_agent" THEN GetLatLngRequests \cup GetWeatherRequests
                           ELSE ExecuteCodeRequests

DepsOf(a) == IF a = "weather_agent" THEN WeatherDeps ELSE {NoDeps}

execute_code_ignores_exit(req) ==
    IF req.stdout = ""
    THEN Raise("ModelRetry", "Code executed successfully but produced no output.")
    ELSE Return(req.stdout)

execute_code(req) ==
    IF req.exit_code # 0
    THEN Raise("ModelRetry", req.stderr)
    ELSE IF req.stdout = ""
         THEN Raise("ModelRetry", "Code executed successfully but produced no output.")
         ELSE Return(req.stdout)

\* r.raise_for_status() raises httpx.HTTPStatusError on a 4xx/5xx answer
get_lat_lng(d, req) ==
    IF d.geo_api_key = "None"
    THEN Return("lat 51.1 lng -0.1")
    ELSE IF req.status # 200
         THEN Raise("HTTPStatusError", "geocode")
         ELSE IF req.found
              THEN Return("lat lng of data[0]")
              ELSE Raise("ModelRetry", "Could not find location")

\* the returned dict evaluates code_lookup(values['weatherCode'], 'Unknown'):
\* code_lookup is a dict and calling it raises TypeError
get_weather(d, req) ==
    IF d.weather_api_key = "None"
    THEN Return("21 C, Sunny with a chance of showers")
    ELSE IF req.status # 200
         THEN Raise("HTTPStatusError", "weather")
         ELSE Raise("TypeError", "'dict' object is not callable")

Handler(d, req) ==
    CASE req.name = "execute_code" -> execute_code(req)
      [] req.name = "get_lat_lng" -> get_lat_lng(d, req)
      [] req.name = "get_weather" -> get_weather(d, req)

(***************************************************************************)
(* Capability registry and orchestrator around a handler (design text 4.2, *)
(* 4.4): a return becomes a tool-return record; a handler that raises is   *)
(* CapabilityFailed, which is fed back into the history as an error        *)
(* observation; either way the engine is invoked again.                    *)
(***************************************************************************)

RecordOf_failure_as_return(o) == "tool-return"

RecordOf(o) == IF o.kind = "return" THEN "tool-return" ELSE "tool-error"

InitTools ==
    /\ agent \in Agents
    /\ deps \in DepsOf(agent)
    /\ request = NoRequest
    /\ outcome = NoOutcome
    /\ pc = "awaiting_engine"
    /\ messages = << "user-prompt" >>
    /\ message_history = << >>
    /\ usage = 0
    /\ retries = 0
    /\ attempts = 0
    /\ pending = 0
    /\ issued = 0
    /\ candidate = NoResult
    /\ verdict = NoVerdict
    /\ data = NoResult
    /\ answer = "None"
    /\ seat = NoResult
    /\ purchased = 0
    /\ printed = << >>
    /\ exception = "None"
    /\ searchCalls = 0
    /\ extractCalls = 0
    /\ seatCalls = 0

ToolsEngineRequests ==
    /\ pc = "awaiting_engine"
    /\ issued < MaxToolRounds
    /\ request' \in RequestsOf(agent)
    /\ messages' = Append(messages, "tool-call")
    /\ issued' = issued + 1
    /\ pending' = 1
    /\ pc' = "awaiting_capabilities"
    /\ UNCHANGED << agent, outcome, deps, usage, message_history, retries,
                    attempts, candidate, verdict, data, answer, seat, purchased,
                    printed, exception, searchCalls, extractCalls, seatCalls >>

ToolsEngineAnswers ==
    /\ pc = "awaiting_engine"
    /\ messages' = Append(messages, "text-response")
    /\ pc' = "run_returned"
    /\ UNCHANGED << agent, request, outcome, deps, usage, message_history,
                    retries, attempts, pending, issued, candidate, verdict, data,
                    answer, seat, purchased, printed, exception, searchCalls,
                    extractCalls, seatCalls >>

InvokeCapability ==
    /\ pc = "awaiting_capabilities"
    /\ pending = 1
    /\ outcome' = Handler(deps, request)
    /\ messages' = Append(messages, RecordOf(outcome'))
    /\ printed' = IF request.name = "execute_code"
                  THEN IF outcome'.kind = "return"
                       THEN printed \o << "Agent wanted to execute this code",
                                          "Execution output" >>
                       ELSE Append(printed, "Agent wanted to execute this code")
                  ELSE printed
    /\ pending' = 0
    /\ pc' = "awaiting_engine"
    /\ UNCHANGED << agent, request, deps, usage, message_history, retries,
                    attempts, issued, candidate, verdict, data, answer, seat,
                    purchased, exception, searchCalls, extractCalls, seatCalls >>

NextTools ==
    \/ ToolsEngineRequests
    \/ ToolsEngineAnswers
    \/ InvokeCapability

SpecTools == InitTools /\ [][NextTools]_vars

(***************************************************************************)
(* Properties.                                                             *)
(***************************************************************************)

\* the constraint fields in declaration order
ConstraintFields == << "origin", "destination", "date" >>

Required(d, f) ==
    CASE f = "origin" -> d.req_origin
      [] f = "destination" -> d.req_destination
      [] f = "date" -> d.req_date

Actual(r, f) ==
    CASE f = "origin" -> r.origin
      [] f = "destination" -> r.destination
      [] f = "date" -> r.date

Mismatched(d, r) ==
    LET differs(f) == Actual(r, f) # Required(d, f)
    IN  SelectSeq(ConstraintFields, differs)

\* C1: validate_result accepts a candidate iff it is the not-found variant or
\* its origin, destination and date equal the required ones, returning the
\* candidate itself; otherwise it raises ModelRetry with exactly one line per
\* mismatched field, in the order origin, destination, date, each line naming
\* the field, the required value and the candidate's value.
C1_ValidateContract ==
    verdict # NoVerdict =>
        IF candidate.variant = "NoFlightFound"
        THEN verdict.kind = "return" /\ verdict.result = candidate
        ELSE LET m == Mismatched(deps, candidate)
             IN  /\ verdict.kind \in {"return", "ModelRetry"}
                 /\ (verdict.kind = "return") <=> (m = << >>)
                 /\ (verdict.kind = "return") => (verdict.result = candidate)
                 /\ (verdict.kind = "ModelRetry") =>
                       /\ Len(verdict.errors) = Len(m)
                       /\ \A i \in 1..Len(m) :
                             verdict.errors[i] =
                                [field |-> m[i], want |-> Required(deps, m[i]),
                                 got |-> Actual(candidate, m[i])]

C1_Witness ==
    /\ verdict.kind = "ModelRetry"
    /\ Len(verdict.errors) = 2
    /\ verdict.errors[1].field = "origin"
    /\ verdict.errors[2].field = "date"

\* C2: a search_agent run validates at most 4 structured results; it is
\* RETRIES_EXHAUSTED only after exactly 4 validations, all rejected and none
\* accepted, and once 4 results were rejected the run is over: the engine is
\* not invoked again.
C2_RetryBound ==
    /\ attempts <= 4
    /\ retries <= attempts
    /\ (pc = "retries_exhausted") => (attempts = 4 /\ retries = 4 /\ data = NoResult)
    /\ (retries = 4) => (pc \in {"retries_exhausted", "main_raised"})
    /\ (retries = attempts /\ attempts = 4) => (data = NoResult)

C2_Witness == pc = "retries_exhausted" /\ attempts = 4 /\ issued > 0

C4_RequeryHistory ==
    [][ (pc = "accepted" /\ data # NoFlightFound /\ answer' # "buy") =>
           /\ pc' = "main_loop"
           /\ message_history' = Append(messages, "Please suggest another flight") ]_vars

\* C5: the loop is left only after NoFlightFound (reported, no prompt, no
\* purchase) or after 'buy' on an accepted flight (a seat obtained and one
\* purchase made); any other answer re-enters the loop in the same session
\* without a purchase.
C5_LoopExits ==
    [][ /\ (pc # "loop_exited" /\ pc' = "loop_exited") =>
              \/ /\ data' = NoFlightFound
                 /\ answer' = "None"
                 /\ purchased' = 0
                 /\ printed' = Append(printed, "No flight found")
              \/ /\ data' \in FlightDetails
                 /\ answer' = "buy"
                 /\ seat' \in SeatPreference
                 /\ purchased' = 1
        /\ (pc = "accepted" /\ data # NoFlightFound /\ answer' # "buy") =>
              /\ pc' = "main_loop"
              /\ purchased' = purchased
              /\ usage' = usage ]_vars

\* C6: whenever validation runs, and whenever the engine is about to be
\* invoked, no capability request is unresolved and the history holds exactly
\* one tool-return record per capability request issued in the run.
C6_CapabilityRoundTrip ==
    /\ (pc \in {"validating", "awaiting_engine"}) =>
          /\ pending = 0
          /\ Count(messages, "tool-return") = issued
    /\ (pc = "awaiting_capabilities") =>
          /\ pending > 0
          /\ Count(messages, "tool-return") = issued - pending

C6_Witness ==
    pc = "validating" /\ issued = 3 /\ Count(messages, "tool-return") = 3

\* C7: the ledger total always equals the number of engine requests made by
\* the search run, the nested extraction runs and the seat run together, and
\* no step decreases it.
C7_LedgerTotal ==
    /\ [](usage = searchCalls + extractCalls + seatCalls)
    /\ [][usage' >= usage]_vars

C7_Witness ==
    /\ searchCalls > 0
    /\ extractCalls > 0
    /\ seatCalls > 0
    /\ usage = searchCalls + extractCalls + seatCalls

\* C8: the consumed total never exceeds the ceiling of 15 requests.
C8_WithinCeiling == usage <= REQUEST_LIMIT

\* C9: a failed ledger check, in the search run or in find_seat, leaves
\* main() as BudgetExceeded with nothing else changed, and from then on the
\* session takes no further step: no engine or capability invocation, no
\* prompt, no purchase.
C9_BudgetFatal ==
    [][ /\ (pc = "budget_exceeded") =>
              /\ pc' = "main_raised"
              /\ exception' = "BudgetExceeded"
              /\ << usage, messages, printed, purchased, answer, seat,
                    searchCalls, extractCalls, seatCalls >>' =
                 << usage, messages, printed, purchased, answer, seat,
                    searchCalls, extractCalls, seatCalls >>
        /\ (exception = "BudgetExceeded") => (vars' = vars) ]_vars

C9_Witness ==
    /\ exception = "BudgetExceeded"
    /\ pc = "main_raised"
    /\ answer = "buy"
    /\ purchased = 0

\* C10: a run that ends RETRIES_EXHAUSTED is reported by main() as a normal
\* outcome ('no satisfactory result'): main() does not end with an exception.
C10_RetriesExhaustedRecoverable ==
    [][ (pc = "retries_exhausted") =>
           /\ pc' # "main_raised"
           /\ exception' = "None"
           /\ printed' = Append(printed, "No satisfactory result") ]_vars

\* the failures of a handler: a non-zero exit code or empty output of
\* execute_code, an HTTP error or no geocoding match in get_lat_lng, an HTTP
\* error in get_weather (the APIs are called only when their key is set)
HandlerFails(d, req) ==
    CASE req.name = "execute_code" -> (req.exit_code # 0 \/ req.stdout = "")
      [] req.name = "get_lat_lng" ->
            (d.geo_api_key # "None" /\ (req.status # 200 \/ ~req.found))
      [] req.name = "get_weather" ->
            (d.weather_api_key # "None" /\ req.status # 200)

\* C11: whenever a registered handler is invoked and fails (the listed
\* failures, or any raise), the history gains exactly one error observation
\* after the records it had, the run goes back to invoking the engine, and no
\* exception leaves the run.
C11_CapabilityFailureFedBack ==
    [][ (pc = "awaiting_capabilities") =>
           /\ exception' = "None"
           /\ pc' = "awaiting_engine"
           /\ (HandlerFails(deps, request) \/ outcome'.kind = "raise") =>
                 /\ outcome'.kind = "raise"
                 /\ messages' = Append(messages, "tool-error") ]_vars

C11_Witness ==
    /\ pc = "awaiting_engine"
    /\ outcome.kind = "raise"
    /\ request.name = "execute_code"
    /\ request.exit_code # 0
    /\ messages[Len(messages)] = "tool-error"
    /\ Count(messages, "tool-error") = 2

====
